---- MODULE Spec2Model ----
(***************************************************************************)
(* Model of serde-csv-extra (src/src/lib.rs): four field codecs that map a *)
(* structured value to the text of one CSV cell and back.                  *)
(*                                                                         *)
(* A text is a sequence of one-character strings.  A Vec is a sequence, an *)
(* Option is a sequence of length 0 (None) or 1 (Some), a pair is a        *)
(* 2-tuple.  The element types are integer types of the width given by a   *)
(* type record; the std conversions the codecs call (ToString/Display and  *)
(* FromStr for integers, str::split, str::split_once, slice::join) are     *)
(* modelled by what they compute.                                          *)
(***************************************************************************)
EXTENDS Integers, Sequences, FiniteSets, TLC

VARIABLES codec, T, H, pc, value, written, input, result

vars == <<codec, T, H, pc, value, written, input, result>>

----------------------------------------------------------------------------
(* Bounds of the exploration                                               *)

MaxLen == 5
MaxList == 3
MaxRows == 2
MaxCols == 2

----------------------------------------------------------------------------
(* Element types the generic parameters T, W, H are instantiated with      *)

I8 == [signed |-> TRUE, min |-> -128, max |-> 127]
U8 == [signed |-> FALSE, min |-> 0, max |-> 255]

Types == {I8, U8}

Codecs == {"vec_num", "vec_vec_num", "maybe_image_size", "maybe_lat_lon"}

----------------------------------------------------------------------------
(* Texts                                                                   *)

DigitChars == <<"0", "1", "2", "3", "4", "5", "6", "7", "8", "9">>

IsDigit(c) == \E i \in 1..10 : DigitChars[i] = c

to_digit(c) == (CHOOSE i \in 1..10 : DigitChars[i] = c) - 1

Range(f) == {f[i] : i \in DOMAIN f}

(* str::find of a single character: index of the first occurrence, 0 if none *)
Find(s, sep) ==
    IF \E i \in 1..Len(s) : s[i] = sep
    THEN CHOOSE i \in 1..Len(s) : s[i] = sep /\ \A j \in 1..(i - 1) : s[j] # sep
    ELSE 0

(* str::split(char): the pieces between separators, empty pieces included; *)
(* a text without separator (the empty text too) gives one piece           *)
RECURSIVE Split(_, _)
Split(s, sep) ==
    LET i == Find(s, sep)
    IN  IF i = 0 THEN <<s>>
        ELSE <<SubSeq(s, 1, i - 1)>> \o Split(SubSeq(s, i + 1, Len(s)), sep)

(* str::split_once: cut at the first occurrence of the separator *)
split_once(s, sep) ==
    LET i == Find(s, sep)
    IN  IF i = 0 THEN [found |-> FALSE, before |-> <<>>, after |-> <<>>]
        ELSE [found |-> TRUE, before |-> SubSeq(s, 1, i - 1),
              after |-> SubSeq(s, i + 1, Len(s))]

(* slice::join *)
RECURSIVE Join(_, _)
Join(strs, sep) ==
    IF strs = <<>> THEN <<>>
    ELSE IF Len(strs) = 1 THEN strs[1]
    ELSE strs[1] \o <<sep>> \o Join(Tail(strs), sep)

(* whether text t occurs in text m *)
Contains(m, t) ==
    \E i \in 1..(Len(m) + 1) :
        i + Len(t) - 1 <= Len(m) /\ SubSeq(m, i, i + Len(t) - 1) = t

----------------------------------------------------------------------------
(* Integer <-> text, as ToString / Display and FromStr compute them        *)

RECURSIVE Decimal(_)
Decimal(n) ==
    IF n < 10 THEN <<DigitChars[n + 1]>>
    ELSE Decimal(n \div 10) \o <<DigitChars[(n % 10) + 1]>>

to_string(n) == IF n < 0 THEN <<"-">> \o Decimal(-n) ELSE Decimal(n)

ErrEmpty == <<"cannot parse integer from empty string">>
ErrInvalidDigit == <<"invalid digit found in string">>
ErrPosOverflow == <<"number too large to fit in target type">>
ErrNegOverflow == <<"number too small to fit in target type">>
ErrBadFormat == <<"bad image size format">>

ParseErrors == {ErrEmpty, ErrInvalidDigit, ErrPosOverflow, ErrNegOverflow}

InRange(n, ty) == ty.min <= n /\ n <= ty.max

(* the digit loop of the integer parser: checked multiply, then checked    *)
(* add (subtract for a negative number), left to right                     *)
RECURSIVE Accumulate(_, _, _, _, _)
Accumulate(digits, i, acc, neg, ty) ==
    IF i > Len(digits) THEN [ok |-> TRUE, val |-> acc, err |-> <<>>]
    ELSE IF ~IsDigit(digits[i])
         THEN [ok |-> FALSE, val |-> 0, err |-> ErrInvalidDigit]
    ELSE LET overflow == IF neg THEN ErrNegOverflow ELSE ErrPosOverflow
             mul == acc * 10
             d == to_digit(digits[i])
             next == IF neg THEN mul - d ELSE mul + d
         IN  IF ~InRange(mul, ty) \/ ~InRange(next, ty)
             THEN [ok |-> FALSE, val |-> 0, err |-> overflow]
             ELSE Accumulate(digits, i + 1, next, neg, ty)

(* str::parse::<ty>() *)
parse(s, ty) ==
    IF s = <<>> THEN [ok |-> FALSE, val |-> 0, err |-> ErrEmpty]
    ELSE IF Len(s) = 1 /\ s[1] \in {"+", "-"}
         THEN [ok |-> FALSE, val |-> 0, err |-> ErrInvalidDigit]
    ELSE LET neg == ty.signed /\ s[1] = "-"
             digits == IF s[1] = "+" \/ neg THEN Tail(s) ELSE s
         IN  Accumulate(digits, 1, 0, neg, ty)

----------------------------------------------------------------------------
(* Results of deserialize: the value or the error message, and the number  *)
(* of tokens handed to parse before the call returned                      *)

Ok(v, n) == [ok |-> TRUE, val |-> v, err |-> <<>>, parsed |-> n]

(* serde::de::Error::custom(msg): the error holds msg's Display text *)
custom(msg, n) == [ok |-> FALSE, val |-> <<>>, err |-> msg, parsed |-> n]

None == <<>>
Some(p) == <<p>>

MapToString(list) == [i \in 1..Len(list) |-> to_string(list[i])]

(* variant: the tokens that do not parse are left out (filter_map) *)
RECURSIVE ParseTokens_skip(_, _, _, _)
ParseTokens_skip(tokens, i, acc, ty) ==
    IF i > Len(tokens) THEN Ok(acc, Len(tokens))
    ELSE LET r == parse(tokens[i], ty)
         IN  ParseTokens_skip(tokens, i + 1, IF r.ok THEN Append(acc, r.val) ELSE acc, ty)

(* tokens.map(|n| n.parse().map_err(Error::custom)) collected into a       *)
(* Result: stops at the first token that fails                             *)
RECURSIVE ParseTokens(_, _, _, _)
ParseTokens(tokens, i, acc, ty) ==
    IF i > Len(tokens) THEN Ok(acc, Len(tokens))
    ELSE LET r == parse(tokens[i], ty)
         IN  IF r.ok THEN ParseTokens(tokens, i + 1, Append(acc, r.val), ty)
             ELSE custom(r.err, i)

----------------------------------------------------------------------------
(* vec_num                                                                 *)

(* variant: every element is followed by the separator *)
vec_num_serialize_trailing(list) ==
    IF list = <<>> THEN <<>> ELSE Join(MapToString(list), "_") \o <<"_">>

vec_num_serialize(list) == Join(MapToString(list), "_")

(* variant: no check of the empty text before the split *)
vec_num_deserialize_unguarded(s, ty) == ParseTokens(Split(s, "_"), 1, <<>>, ty)

vec_num_deserialize(s, ty) ==
    IF s = <<>> THEN Ok(<<>>, 0)
    ELSE ParseTokens(Split(s, "_"), 1, <<>>, ty)

----------------------------------------------------------------------------
(* vec_vec_num                                                             *)

(* variant: the rows are joined with the separator of the elements *)
vec_vec_num_serialize_flat(rows) ==
    Join([i \in 1..Len(rows) |-> Join(MapToString(rows[i]), "_")], "_")

vec_vec_num_serialize(rows) ==
    Join([i \in 1..Len(rows) |-> Join(MapToString(rows[i]), "_")], "|")

(* variant: an empty line gives an empty row *)
RECURSIVE ParseRows_emptyline(_, _, _, _, _)
ParseRows_emptyline(lines, i, rows, n, ty) ==
    IF i > Len(lines) THEN Ok(rows, n)
    ELSE LET r == IF lines[i] = <<>> THEN Ok(<<>>, 0)
                  ELSE ParseTokens(Split(lines[i], "_"), 1, <<>>, ty)
         IN  IF r.ok
             THEN ParseRows_emptyline(lines, i + 1, Append(rows, r.val), n + r.parsed, ty)
             ELSE custom(r.err, n + r.parsed)

(* the loop over s.split('|'); n counts the tokens parsed so far *)
RECURSIVE ParseRows(_, _, _, _, _)
ParseRows(lines, i, rows, n, ty) ==
    IF i > Len(lines) THEN Ok(rows, n)
    ELSE LET r == ParseTokens(Split(lines[i], "_"), 1, <<>>, ty)
         IN  IF r.ok THEN ParseRows(lines, i + 1, Append(rows, r.val), n + r.parsed, ty)
             ELSE custom(r.err, n + r.parsed)

vec_vec_num_deserialize(s, ty) ==
    IF s = <<>> THEN Ok(<<>>, 0)
    ELSE ParseRows(Split(s, "|"), 1, <<>>, 0, ty)

----------------------------------------------------------------------------
(* maybe_image_size and maybe_lat_lon                                      *)

(* the common tail of both pair deserializers: parse the first part, then  *)
(* the second                                                              *)
ParsePair(first, second, ty1, ty2) ==
    LET a == parse(first, ty1)
        b == parse(second, ty2)
    IN  IF ~a.ok THEN custom(a.err, 1)
        ELSE IF ~b.ok THEN custom(b.err, 2)
        ELSE Ok(Some(<<a.val, b.val>>), 2)

maybe_image_size_serialize(size) ==
    IF size # None
    THEN to_string(size[1][1]) \o <<"x">> \o to_string(size[1][2])
    ELSE <<>>

(* variant: split at every 'x' and take the first two pieces *)
maybe_image_size_deserialize_split(s, w, h) ==
    IF s = <<>> THEN Ok(None, 0)
    ELSE LET pieces == Split(s, "x")
         IN  IF Len(pieces) < 2 THEN custom(ErrBadFormat, 0)
             ELSE ParsePair(pieces[1], pieces[2], w, h)

(* variant: a text without 'x' is taken as a width with an empty height *)
maybe_image_size_deserialize_lenient(s, w, h) ==
    IF s = <<>> THEN Ok(None, 0)
    ELSE LET cut == split_once(s, "x")
         IN  IF ~cut.found THEN ParsePair(s, <<>>, w, h)
             ELSE ParsePair(cut.before, cut.after, w, h)

maybe_image_size_deserialize(s, w, h) ==
    IF s = <<>> THEN Ok(None, 0)
    ELSE LET cut == split_once(s, "x")
         IN  IF ~cut.found THEN custom(ErrBadFormat, 0)
             ELSE ParsePair(cut.before, cut.after, w, h)

maybe_lat_lon_serialize(size) ==
    IF size # None
    THEN to_string(size[1][1]) \o <<";">> \o to_string(size[1][2])
    ELSE <<>>

(* variant: the separator of the image size is used *)
maybe_lat_lon_deserialize_x(s, ty) ==
    IF s = <<>> THEN Ok(None, 0)
    ELSE LET cut == split_once(s, "x")
         IN  IF ~cut.found THEN custom(ErrBadFormat, 0)
             ELSE ParsePair(cut.before, cut.after, ty, ty)

maybe_lat_lon_deserialize(s, ty) ==
    IF s = <<>> THEN Ok(None, 0)
    ELSE LET cut == split_once(s, ";")
         IN  IF ~cut.found THEN custom(ErrBadFormat, 0)
             ELSE ParsePair(cut.before, cut.after, ty, ty)

----------------------------------------------------------------------------
(* Inputs                                                                  *)

SeqsUpTo(S, n) == UNION {[1..k -> S] : k \in 0..n}

Vals(ty) == {ty.min, 9, ty.max}
MatVals(ty) == {ty.min, 9}

Lists(ty) == SeqsUpTo(Vals(ty), MaxList)
Matrices(ty) == SeqsUpTo(SeqsUpTo(MatVals(ty), MaxCols), MaxRows)
Pairs(ty1, ty2) == {None} \cup {Some(<<a, b>>) : a \in Vals(ty1), b \in Vals(ty2)}

ListAlphabet == {"0", "9", "-", "+", "_", "|"}
PairAlphabet == {"0", "9", "-", "+", "x", ";"}

(* the literal texts of the tests and of the documentation *)
Literals ==
    { <<"-", "1", "_", "0", "_", "3">>, <<"-", "1", "_", "1">>,
      <<"0", "|", "-", "1", "_", "1">>, <<"-", "1", "_", "1", "|", "1", "_", "-", "1">>,
      <<"1", "|", "|", "2">>,
      <<"1", "x", "2">>, <<"1", "x", "2", "x", "3">>, <<"1", "x">>, <<"x", "1">>, <<"1">>,
      <<"1", "6", "x", "1", "0", "2", "4">>, <<"1", "2", "8", "x", "6", "4">>,
      <<"-", "1", ";", "1">>, <<"1", ";">>, <<"1", ";", "2", ";", "3">> }

Texts(c) ==
    Literals \cup
    SeqsUpTo(IF c \in {"vec_num", "vec_vec_num"} THEN ListAlphabet ELSE PairAlphabet, MaxLen)

NoResult == [ok |-> FALSE, val |-> <<>>, err |-> <<>>, parsed |-> 0]

----------------------------------------------------------------------------
(* The field: the framework either serializes a value and reads the cell   *)
(* back, or reads a cell it was given and writes the decoded value again   *)

Init ==
    /\ codec \in Codecs
    /\ T \in Types
    /\ H \in Types
    /\ codec # "maybe_image_size" => H = T
    /\ pc = "start"
    /\ value = <<>>
    /\ written = <<>>
    /\ input = <<>>
    /\ result = NoResult

(* what serialize is called with: a value of the field's type, or the      *)
(* value just decoded                                                      *)
SerArgs(S) ==
    IF pc = "start" THEN S
    ELSE IF pc = "deserialized" /\ result.ok THEN {result.val}
    ELSE {}

(* what String::deserialize hands to deserialize: a text of the cell, or   *)
(* the text just written                                                   *)
DeArgs ==
    IF pc = "start" THEN Texts(codec)
    ELSE IF pc = "serialized" THEN {written}
    ELSE {}

Serialized(v, s) ==
    /\ value' = v
    /\ written' = s
    /\ pc' = IF pc = "start" THEN "serialized" ELSE "reserialized"
    /\ UNCHANGED <<codec, T, H, input, result>>

Deserialized(s, r) ==
    /\ input' = s
    /\ result' = r
    /\ pc' = IF pc = "start" THEN "deserialized" ELSE "roundtrip"
    /\ UNCHANGED <<codec, T, H, value, written>>

VecNumSerialize ==
    /\ codec = "vec_num"
    /\ \E list \in SerArgs(Lists(T)) : Serialized(list, vec_num_serialize(list))

VecNumDeserialize ==
    /\ codec = "vec_num"
    /\ \E s \in DeArgs : Deserialized(s, vec_num_deserialize(s, T))

VecVecNumSerialize ==
    /\ codec = "vec_vec_num"
    /\ \E rows \in SerArgs(Matrices(T)) : Serialized(rows, vec_vec_num_serialize(rows))

VecVecNumDeserialize ==
    /\ codec = "vec_vec_num"
    /\ \E s \in DeArgs : Deserialized(s, vec_vec_num_deserialize(s, T))

MaybeImageSizeSerialize ==
    /\ codec = "maybe_image_size"
    /\ \E size \in SerArgs(Pairs(T, H)) : Serialized(size, maybe_image_size_serialize(size))

MaybeImageSizeDeserialize ==
    /\ codec = "maybe_image_size"
    /\ \E s \in DeArgs : Deserialized(s, maybe_image_size_deserialize(s, T, H))

MaybeLatLonSerialize ==
    /\ codec = "maybe_lat_lon"
    /\ \E size \in SerArgs(Pairs(T, T)) : Serialized(size, maybe_lat_lon_serialize(size))

MaybeLatLonDeserialize ==
    /\ codec = "maybe_lat_lon"
    /\ \E s \in DeArgs : Deserialized(s, maybe_lat_lon_deserialize(s, T))

Next ==
    \/ VecNumSerialize
    \/ VecNumDeserialize
    \/ VecVecNumSerialize
    \/ VecVecNumDeserialize
    \/ MaybeImageSizeSerialize
    \/ MaybeImageSizeDeserialize
    \/ MaybeLatLonSerialize
    \/ MaybeLatLonDeserialize

Spec == Init /\ [][Next]_vars

----------------------------------------------------------------------------
(* Properties                                                              *)

Decoded == pc \in {"deserialized", "roundtrip"}
Encoded == pc \in {"serialized", "reserialized"}
ListCodec == codec \in {"vec_num", "vec_vec_num"}
PairCodec == codec \in {"maybe_image_size", "maybe_lat_lon"}
Separator == IF codec = "maybe_image_size" THEN "x" ELSE ";"

(* deserialize of the field's codec, for a text *)
Decode(s) ==
    CASE codec = "vec_num" -> vec_num_deserialize(s, T)
      [] codec = "vec_vec_num" -> vec_vec_num_deserialize(s, T)
      [] codec = "maybe_image_size" -> maybe_image_size_deserialize(s, T, H)
      [] codec = "maybe_lat_lon" -> maybe_lat_lon_deserialize(s, T)

(* C1: vec_num::deserialize of the text written by vec_num::serialize(v)   *)
(* succeeds and returns exactly v, for every list v, the empty one too.    *)
C1_VecNumRoundTrip ==
    (codec = "vec_num" /\ pc = "roundtrip") => (result.ok /\ result.val = value)

C1_Witness ==
    /\ codec = "vec_num" /\ pc = "roundtrip"
    /\ Len(value) >= 2 /\ value[1] < 0 /\ result.ok

C3_PairRoundTrip ==
    (PairCodec /\ pc = "roundtrip") => (result.ok /\ result.val = value)

C3_Witness ==
    /\ codec = "maybe_lat_lon" /\ pc = "roundtrip"
    /\ value # None /\ value[1][2] < 0 /\ result.ok

(* C4: serialize writes the empty text for the empty list, the empty       *)
(* matrix and None, and a non-empty text for every other value.            *)
C4_EmptyIffEmpty ==
    Encoded => ((written = <<>>) <=> (value = <<>>))

(* C5: for every text s that deserialize accepts, serialize of the decoded *)
(* value writes exactly s again.                                           *)
C5_ReverseRoundTrip ==
    pc = "reserialized" => written = input

(* a number of the text is not in the form to_string writes: a '+' sign, a *)
(* zero in front of further digits, or a zero after '-'                    *)
NonCanonical(s) ==
    \E i \in 1..Len(s) :
        \/ s[i] = "+"
        \/ /\ s[i] = "0"
           /\ (i = 1 \/ ~IsDigit(s[i - 1]))
           /\ \/ (i < Len(s) /\ IsDigit(s[i + 1]))
              \/ (i > 1 /\ s[i - 1] = "-")

(* C5 as amended: the text written for the decoded value decodes to the    *)
(* same value again, and it is exactly s when every number of s is in the  *)
(* form to_string writes.                                                  *)
C5_ReverseRoundTripCanonical ==
    pc = "reserialized" =>
        /\ Decode(written).ok /\ Decode(written).val = result.val
        /\ (~NonCanonical(input) => written = input)

C5_Witness ==
    /\ pc = "reserialized" /\ codec = "vec_vec_num"
    /\ ~NonCanonical(input) /\ Len(result.val) = 2 /\ written = input

(* C6: deserialize of the empty text succeeds with the empty list, the     *)
(* empty matrix or None and parses no token; a non-empty text is never     *)
(* decoded to an empty list, an empty matrix or None.                      *)
C6_EmptyGuard ==
    Decoded =>
        /\ input = <<>> => result = Ok(<<>>, 0)
        /\ (input # <<>> /\ result.ok) => result.val # <<>>

C6_Witness ==
    /\ codec = "vec_vec_num" /\ pc = "deserialized"
    /\ input = <<>> /\ result.ok /\ result.val = <<>>

(* the first 'x' of s is at i, the text before it parses as the width type *)
(* and the whole text after it as the height type                          *)
FirstXParses(s, i) ==
    /\ s[i] = "x"
    /\ \A j \in 1..(i - 1) : s[j] # "x"
    /\ parse(SubSeq(s, 1, i - 1), T).ok
    /\ parse(SubSeq(s, i + 1, Len(s)), H).ok

(* C7: for a non-empty text s, maybe_image_size::deserialize returns       *)
(* Some((w, h)) exactly when s has an 'x', the text before the first 'x'   *)
(* parses as the width and all the text after it as the height; otherwise  *)
(* it returns an error: "1x", "x1", "1" and "1x2x3" are rejected.          *)
C7_FirstSeparator ==
    (codec = "maybe_image_size" /\ Decoded /\ input # <<>>) =>
        /\ result.ok <=> \E i \in 1..Len(input) : FirstXParses(input, i)
        /\ result.ok =>
              \E i \in 1..Len(input) :
                  /\ FirstXParses(input, i)
                  /\ result.val = Some(<<parse(SubSeq(input, 1, i - 1), T).val,
                                         parse(SubSeq(input, i + 1, Len(input)), H).val>>)
        /\ input \in {<<"1", "x">>, <<"x", "1">>, <<"1">>, <<"1", "x", "2", "x", "3">>}
              => ~result.ok

C7_Witness ==
    /\ codec = "maybe_image_size" /\ pc = "deserialized"
    /\ input = <<"1", "x", "2", "x", "3">> /\ ~result.ok
    /\ result.err = ErrInvalidDigit /\ result.parsed = 2

(* C8: in both pair codecs a non-empty text without the separator fails    *)
(* with "bad image size format" before any part is parsed; a token parse   *)
(* failure is a different error and occurs only with the separator there.  *)
C8_FormatFailure ==
    (PairCodec /\ Decoded /\ input # <<>>) =>
        /\ Separator \notin Range(input) => result = custom(ErrBadFormat, 0)
        /\ (Separator \in Range(input) /\ ~result.ok) =>
              /\ result.err \in ParseErrors
              /\ result.err # ErrBadFormat
              /\ result.parsed >= 1

C8_Witness ==
    /\ codec = "maybe_lat_lon" /\ pc = "deserialized"
    /\ input # <<>> /\ ";" \notin Range(input)
    /\ ~result.ok /\ result.err = ErrBadFormat

(* the tokens of a list or matrix text, in the order they are parsed *)
RECURSIVE Flatten(_)
Flatten(ss) == IF ss = <<>> THEN <<>> ELSE ss[1] \o Flatten(Tail(ss))

Tokens(s) ==
    IF codec = "vec_num" THEN Split(s, "_")
    ELSE LET lines == Split(s, "|")
         IN  Flatten([i \in 1..Len(lines) |-> Split(lines[i], "_")])

Failing(s) == {i \in 1..Len(Tokens(s)) : ~parse(Tokens(s)[i], T).ok}

FirstFailing(s) == CHOOSE i \in Failing(s) : \A j \in Failing(s) : i <= j

HasEmptyRow(s) ==
    \/ s[1] = "|"
    \/ s[Len(s)] = "|"
    \/ \E i \in 1..(Len(s) - 1) : s[i] = "|" /\ s[i + 1] = "|"

(* C10: vec_vec_num::deserialize returns an error for every non-empty text *)
(* with an empty row (a leading '|', a trailing '|', or "||"); every       *)
(* matrix it returns for a non-empty text has at least one row and no      *)
(* empty row.                                                              *)
C10_NoEmptyRow ==
    (codec = "vec_vec_num" /\ Decoded /\ input # <<>>) =>
        /\ HasEmptyRow(input) => ~result.ok
        /\ result.ok =>
              /\ Len(result.val) >= 1
              /\ \A i \in 1..Len(result.val) : Len(result.val[i]) >= 1

C10_Witness ==
    /\ codec = "vec_vec_num" /\ pc = "deserialized"
    /\ input = <<"1", "|", "|", "2">>
    /\ ~result.ok /\ result.err = ErrEmpty /\ result.parsed = 2

====
